---- MODULE Spec2Model ----
(***************************************************************************)
(* Model of the session-aware supervisor of src/src/it_agent/service.py:   *)
(* OCPHelpdeskService._main_loop running on the service thread, SvcStop    *)
(* running on the service-control thread, and the operating system         *)
(* (sessions, child processes, handles, the stop event) as environment.    *)
(* Two further, independent parts of the repository have their own         *)
(* specifications over their own variables: install_service of             *)
(* src/service_manager.py (InstallSpec) and the ticket window handling of  *)
(* the launched agent, src/main.py, tray.py and gui.py (AgentSpec).        *)
(***************************************************************************)
EXTENDS Integers, FiniteSets, Sequences, TLC

\* ---------------------------------------------------------------- bounds
MaxLaunch  == 2      \* child processes the OS creates in one behaviour
MaxSession == 2      \* interactive session ids are 1..MaxSession
MaxFails   == 2      \* failed launches in a row that the history counts
MaxCalls   == 5      \* service_manager operations run in one behaviour
MaxPending == 2      \* callbacks waiting in the agent's Tk after-queue
MaxWindows == 2      \* ticket windows the agent creates in one behaviour

\* ------------------------------------------------------ program constants
RESTART_DELAY == 5
POLL_INTERVAL == 3
SESSION_WAIT  == 10
\* 0xFFFFFFFF, the largest DWORD; stood for by the largest integer TLC has
NO_SESSION_SENTINEL == 2147483647

\* ------------------------------------------------------------ value sets
None      == -1                        \* Python None (session id / handle)
QueryError == -2                       \* WTSGetActiveConsoleSessionId raised
Sessions  == 1..MaxSession
Children  == 1..MaxLaunch              \* process handles, one per child
Threads   == {"loop", "stop"}
OSAnswers == Sessions \cup {NO_SESSION_SENTINEL, QueryError}
Outcomes  == {"token_fail", "dup_fail", "env_fail", "create_fail", "ok"}

VARIABLES
    app,            \* which launchable artifact exists: "exe", "py", "none"
    pc,             \* position of the loop thread in _main_loop
    spc,            \* position of the control thread in SvcStop
    kpc,            \* position of each thread inside _kill_child
    is_alive,       \* self.is_alive
    child_process,  \* self.child_process: None or a process handle
    hWaitStop,      \* the auto-reset stop event is signalled
    session_id,     \* local session_id of _main_loop
    waitSecs,       \* timeout of the wait in progress / last wait
    waitResult,     \* result of the last _wait: "none", "WAIT_OBJECT_0", "WAIT_TIMEOUT"
    proc,           \* OS: state of each child process
    handle,         \* OS: state of each process handle
    closes,         \* OS: number of CloseHandle calls made on each handle
    sessionOf,      \* OS: session each child was created in
    tok,            \* state of the launcher's local handles at its last return
    cyc,            \* history of the current loop cycle
    backoffPending, \* history: a launch failed and no RESTART_DELAY wait completed since
    stopChild,      \* history: child tracked and alive when stop was requested
    killSeen,       \* history: record each thread's _kill_child found at line 225
    hist,           \* history: failed launches in a row before the latest attempt
    termIssued,     \* history: children TerminateProcess was called on
    \* service_manager.py
    iexe,           \* what get_service_exe finds: "exe", "py", "none"
    svc,            \* OS: the service control manager's record of the service
    ilog,           \* commands the last install_service call issued, in order
    iresult,        \* what the last install_service call returned
    icalls,         \* operations run so far
    \* the launched agent (main.py, tray.py, gui.py)
    running,        \* TrayManager._running
    ticket_window,  \* ITAgentApp._ticket_window: None or a window
    exists,         \* Tk: windows for which winfo_exists() is true
    afterq,         \* Tk: callbacks scheduled with after() and not yet run
    made,           \* number of TicketWindow objects constructed
    focused         \* window of the last focus_force made by open_ticket_window

vars == <<app, pc, spc, kpc, is_alive, child_process, hWaitStop, session_id,
          waitSecs, waitResult, proc, handle, closes, sessionOf, tok, cyc,
          backoffPending, stopChild, killSeen, hist, termIssued,
          iexe, svc, ilog, iresult, icalls,
          running, ticket_window, exists, afterq, made, focused>>
ivars == <<iexe, svc, ilog, iresult, icalls>>
avars == <<running, ticket_window, exists, afterq, made, focused>>

NoTok  == [hToken |-> "none", hTokenDup |-> "none", hThread |-> "none"]
NewCyc == [noChild |-> FALSE, sawExit |-> FALSE, attempt |-> None,
           answer |-> None, tracked |-> None, outcome |-> "none"]
NoHist == [fails |-> 0, ok |-> FALSE]

NoService == [exists |-> FALSE, start |-> "none", recovery |-> FALSE,
              described |-> FALSE]

\* OCPHelpdeskService.__init__ (lines 86-91), before the loop thread runs
ServiceInit ==
    /\ pc = "start"
    /\ spc = "idle"
    /\ kpc = [t \in Threads |-> "out"]
    /\ is_alive = TRUE
    /\ child_process = None
    /\ hWaitStop = FALSE
    /\ session_id = None
    /\ waitSecs = 0
    /\ waitResult = "none"
    /\ proc = [c \in Children |-> "unborn"]
    /\ handle = [c \in Children |-> "none"]
    /\ closes = [c \in Children |-> 0]
    /\ sessionOf = [c \in Children |-> None]
    /\ tok = NoTok
    /\ cyc = NewCyc
    /\ backoffPending = FALSE
    /\ stopChild = None
    /\ killSeen = [t \in Threads |-> None]
    /\ hist = NoHist
    /\ termIssued = {}

\* service_manager.py before any operation is run
ManagerIdle ==
    /\ svc = NoService
    /\ ilog = <<>>
    /\ iresult = "none"
    /\ icalls = 0

\* ITAgentApp.__init__ (main.py lines 23-33) and TrayManager.__init__
AgentIdle ==
    /\ running = TRUE
    /\ ticket_window = None
    /\ exists = {}
    /\ afterq = <<>>
    /\ made = 0
    /\ focused = None

Init ==
    /\ app \in {"exe", "py", "none"}
    /\ ServiceInit
    /\ iexe = "none"
    /\ ManagerIdle
    /\ AgentIdle


\* ------------------------------------------------------- pure operations

\* _get_active_session: the sentinel and a failed query both give None
ActiveSessionUncaught(answer) ==
    IF answer = NO_SESSION_SENTINEL THEN None ELSE answer
ActiveSession(answer) ==
    IF answer = QueryError THEN None
    ELSE IF answer = NO_SESSION_SENTINEL THEN None
    ELSE answer

\* _is_process_alive: False when nothing is tracked or the check raises,
\* otherwise WaitForSingleObject(handle, 0) = WAIT_TIMEOUT
IsProcessAliveOnError(cp, checkFails) ==
    IF cp = None THEN FALSE
    ELSE IF checkFails \/ handle[cp] # "open" THEN TRUE
    ELSE proc[cp] = "alive"
IsProcessAlive(cp, checkFails) ==
    IF cp = None THEN FALSE
    ELSE IF checkFails \/ handle[cp] # "open" THEN FALSE
    ELSE proc[cp] = "alive"

\* line 130: self.child_process and self._is_process_alive()
ChildRunningInverted(cp, alive) == cp = None \/ alive
ChildRunningTracked(cp, alive) == cp # None
ChildRunning(cp, alive) == cp # None /\ alive

\* _wait: WaitForSingleObject(hWaitStop, ms) = WAIT_OBJECT_0
WaitSleep(signalled) == FALSE
WaitInverted(signalled) == ~signalled
Wait(signalled) == signalled

\* line 126: the delay waited when no session is active
NoSessionDelayPoll == POLL_INTERVAL
NoSessionDelay == SESSION_WAIT

\* lines 231-232: except Exception swallows every error raised inside
\* _kill_child, and line 233 then clears the record
KillErrorEscapes == "raised"
OnKillError == "clear"

\* line 161: the session whose user token the launcher queries
TokenSessionConsole(sid) == 1
TokenSession(sid) == sid

\* line 139: the delay waited after a failed launch
FailureDelayPoll == POLL_INTERVAL
FailureDelay == RESTART_DELAY

\* what _launch_in_session returns: True at line 206 only, False from both
\* except clauses (lines 208-213)
LaunchReturnsEnvTrue(outcome) == outcome \in {"ok", "env_fail"}
LaunchReturnsAlways(outcome) == TRUE
LaunchReturns(outcome) == outcome = "ok"

\* _launch_in_session: state of the three local handles when it returns.
\* CloseHandle is called on them only on the success path (lines 202-204).
IntermediateAfter(outcome) ==
    CASE outcome = "token_fail"  -> NoTok
      [] outcome = "dup_fail"    -> [hToken |-> "open", hTokenDup |-> "none", hThread |-> "none"]
      [] outcome = "env_fail"    -> [hToken |-> "open", hTokenDup |-> "open", hThread |-> "none"]
      [] outcome = "create_fail" -> [hToken |-> "open", hTokenDup |-> "open", hThread |-> "none"]
      [] OTHER                   -> [hToken |-> "closed", hTokenDup |-> "closed", hThread |-> "closed"]

Born == {c \in Children : proc[c] # "unborn"}
AliveChildren == {c \in Children : proc[c] = "alive"}

\* a handle whose last reference is overwritten without CloseHandle
Forget(h) == IF h # None /\ handle[h] = "open"
             THEN [handle EXCEPT ![h] = "dropped"] ELSE handle

\* ------------------------------------------------- _main_loop (loop thread)

\* lines 111-120: locate OCP_IT_Helpdesk.exe or main.py, else log and return
FindApp ==
    /\ pc = "start"
    /\ pc' = IF app = "none" THEN "done" ELSE "while"
    /\ UNCHANGED <<app, spc, kpc, is_alive, child_process, hWaitStop, session_id,
                   waitSecs, waitResult, proc, handle, closes, sessionOf, tok,
                   cyc, backoffPending, stopChild, killSeen, hist, termIssued,
                   ivars, avars>>

\* line 122: the loop condition
KeepLoopingAlways(alive) == TRUE
KeepLooping(alive) == alive

\* line 122: while self.is_alive; on exit line 146 calls _kill_child
LoopTest ==
    /\ pc = "while"
    /\ IF KeepLooping(is_alive)
       THEN /\ pc' = "session"
            /\ kpc' = kpc
       ELSE /\ pc' = "kill"
            /\ kpc' = [kpc EXCEPT !["loop"] = "test"]
    /\ cyc' = [NewCyc EXCEPT !.tracked = child_process]
    /\ UNCHANGED <<app, spc, is_alive, child_process, hWaitStop, session_id,
                   waitSecs, waitResult, proc, handle, closes, sessionOf, tok,
                   backoffPending, stopChild, killSeen, hist, termIssued,
                   ivars, avars>>

\* lines 123-128
GetActiveSession ==
    /\ pc = "session"
    /\ \E answer \in OSAnswers :
          /\ session_id' = ActiveSession(answer)
          /\ cyc' = [cyc EXCEPT !.answer = answer]
          /\ IF ActiveSession(answer) = None
             THEN /\ pc' = "wait"
                  /\ waitSecs' = NoSessionDelay
             ELSE /\ pc' = "check"
                  /\ waitSecs' = waitSecs
    /\ UNCHANGED <<app, spc, kpc, is_alive, child_process, hWaitStop,
                   waitResult, proc, handle, closes, sessionOf, tok,
                   backoffPending, stopChild, killSeen, hist, termIssued,
                   ivars, avars>>

\* lines 131-133: with the child alive the cycle waits before it continues
OnChildAliveContinue == "while"
OnChildAlive == "wait"

\* lines 130-135
CheckChild ==
    /\ pc = "check"
    /\ \E checkFails \in BOOLEAN :
          LET alive == IsProcessAlive(child_process, checkFails) IN
          /\ IF ChildRunning(child_process, alive)
             THEN /\ pc' = OnChildAlive
                  /\ waitSecs' = POLL_INTERVAL
             ELSE /\ pc' = "launch"
                  /\ waitSecs' = waitSecs
          /\ cyc' = [cyc EXCEPT
                       !.noChild = (child_process = None),
                       !.sawExit = (child_process # None /\ ~checkFails
                                    /\ handle[child_process] = "open"
                                    /\ proc[child_process] = "exited")]
    /\ UNCHANGED <<app, spc, kpc, is_alive, child_process, hWaitStop, session_id,
                   waitResult, proc, handle, closes, sessionOf, tok,
                   backoffPending, stopChild, killSeen, hist, termIssued,
                   ivars, avars>>

\* lines 136-143 with _launch_in_session (lines 159-213)
LaunchInSession ==
    /\ pc = "launch"
    /\ \E outcome \in Outcomes :
          /\ outcome = "ok" => Born # Children
          /\ tok' = IntermediateAfter(outcome)
          /\ cyc' = [cyc EXCEPT !.attempt = session_id, !.outcome = outcome]
          /\ IF outcome = "ok"
             THEN LET n == Cardinality(Born) + 1 IN
                  /\ proc' = [proc EXCEPT ![n] = "alive"]
                  /\ handle' = [Forget(child_process) EXCEPT ![n] = "open"]
                  /\ sessionOf' = [sessionOf EXCEPT ![n] = TokenSession(session_id)]
                  /\ child_process' = n
             ELSE UNCHANGED <<proc, handle, sessionOf, child_process>>
          /\ IF LaunchReturns(outcome)
             THEN /\ waitSecs' = POLL_INTERVAL
                  /\ backoffPending' = FALSE
                  /\ hist' = [fails |-> IF hist.ok THEN 0 ELSE hist.fails,
                              ok |-> TRUE]
             ELSE /\ waitSecs' = FailureDelay
                  /\ backoffPending' = TRUE
                  /\ hist' = [fails |-> IF hist.ok THEN 1
                                        ELSE IF hist.fails < MaxFails
                                             THEN hist.fails + 1 ELSE MaxFails,
                              ok |-> FALSE]
    /\ pc' = "wait"
    /\ UNCHANGED <<app, spc, kpc, is_alive, hWaitStop, session_id, waitResult,
                   closes, stopChild, killSeen, termIssued,
                   ivars, avars>>

\* _wait (lines 235-237) and the break / continue that follows it
WaitOnStopContinue ==
    /\ pc = "wait"
    /\ waitResult' = IF Wait(hWaitStop) THEN "WAIT_OBJECT_0" ELSE "WAIT_TIMEOUT"
    /\ hWaitStop' = FALSE
    /\ pc' = "while"
    /\ backoffPending' = IF waitSecs >= RESTART_DELAY
                         THEN FALSE ELSE backoffPending
    /\ UNCHANGED <<app, spc, kpc, is_alive, child_process, session_id, waitSecs,
                   proc, handle, closes, sessionOf, tok, cyc, stopChild,
                   killSeen, hist, termIssued,
                   ivars, avars>>
WaitOnStop ==
    /\ pc = "wait"
    /\ IF Wait(hWaitStop)
       THEN /\ waitResult' = "WAIT_OBJECT_0"
            /\ hWaitStop' = FALSE
            /\ pc' = "kill"
            /\ kpc' = [kpc EXCEPT !["loop"] = "test"]
            /\ backoffPending' = backoffPending
       ELSE /\ waitResult' = "WAIT_TIMEOUT"
            /\ hWaitStop' = hWaitStop
            /\ pc' = "while"
            /\ kpc' = kpc
            /\ backoffPending' = IF waitSecs >= RESTART_DELAY
                                 THEN FALSE ELSE backoffPending
    /\ UNCHANGED <<app, spc, is_alive, child_process, session_id, waitSecs,
                   proc, handle, closes, sessionOf, tok, cyc, stopChild, killSeen, hist, termIssued,
                   ivars, avars>>

\* line 147: _main_loop returns after its _kill_child
LoopExit ==
    /\ pc = "kill"
    /\ kpc["loop"] = "ret"
    /\ pc' = "done"
    /\ kpc' = [kpc EXCEPT !["loop"] = "out"]
    /\ UNCHANGED <<app, spc, is_alive, child_process, hWaitStop, session_id,
                   waitSecs, waitResult, proc, handle, closes, sessionOf, tok,
                   cyc, backoffPending, stopChild, killSeen, hist, termIssued,
                   ivars, avars>>

\* ------------------------------------- _kill_child (lines 224-233), per thread

\* line 225: if self.child_process
KillTest(t) ==
    /\ kpc[t] = "test"
    /\ kpc' = [kpc EXCEPT ![t] = IF child_process # None THEN "alive" ELSE "ret"]
    /\ killSeen' = [killSeen EXCEPT ![t] = child_process]
    /\ UNCHANGED <<app, pc, spc, is_alive, child_process, hWaitStop, session_id,
                   waitSecs, waitResult, proc, handle, closes, sessionOf, tok,
                   cyc, backoffPending, stopChild, hist, termIssued,
                   ivars, avars>>

\* line 227: if self._is_process_alive()
KillAlive(t) ==
    /\ kpc[t] = "alive"
    /\ \E checkFails \in BOOLEAN :
          kpc' = [kpc EXCEPT ![t] = IF IsProcessAlive(child_process, checkFails)
                                    THEN "term" ELSE "close"]
    /\ UNCHANGED <<app, pc, spc, is_alive, child_process, hWaitStop, session_id,
                   waitSecs, waitResult, proc, handle, closes, sessionOf, tok,
                   cyc, backoffPending, stopChild, killSeen, hist, termIssued,
                   ivars, avars>>

\* line 228: TerminateProcess; it raises when the record was cleared meanwhile,
\* when the process has already exited or the handle is closed, or for any
\* other OS reason, and the exception skips CloseHandle (line 231)
KillTerminate(t) ==
    /\ kpc[t] = "term"
    /\ \E ok \in BOOLEAN :
          IF /\ ok
             /\ child_process # None
             /\ proc[child_process] = "alive"
             /\ handle[child_process] = "open"
          THEN /\ proc' = [proc EXCEPT ![child_process] = "exited"]
               /\ kpc' = [kpc EXCEPT ![t] = "close"]
          ELSE /\ proc' = proc
               /\ kpc' = [kpc EXCEPT ![t] = OnKillError]
    /\ termIssued' = IF child_process # None
                     THEN termIssued \cup {child_process} ELSE termIssued
    /\ UNCHANGED <<app, pc, spc, is_alive, child_process, hWaitStop, session_id,
                   waitSecs, waitResult, handle, closes, sessionOf, tok, cyc,
                   backoffPending, stopChild, killSeen, hist, ivars, avars>>

\* line 230: CloseHandle(self.child_process)
KillClose(t) ==
    /\ kpc[t] = "close"
    /\ IF child_process # None
       THEN /\ handle' = [handle EXCEPT ![child_process] = "closed"]
            /\ closes' = [closes EXCEPT ![child_process] = @ + 1]
            /\ kpc' = [kpc EXCEPT ![t] = "clear"]
       ELSE /\ UNCHANGED <<handle, closes>>
            /\ kpc' = [kpc EXCEPT ![t] = OnKillError]
    /\ UNCHANGED <<app, pc, spc, is_alive, child_process, hWaitStop, session_id,
                   waitSecs, waitResult, proc, sessionOf, tok, cyc,
                   backoffPending, stopChild, killSeen, hist, termIssued,
                   ivars, avars>>

\* line 233: self.child_process = None
KillClearInTry(t) ==
    /\ kpc[t] = "clear"
    /\ child_process' = IF child_process # None /\ handle[child_process] = "open"
                        THEN child_process ELSE None
    /\ kpc' = [kpc EXCEPT ![t] = "ret"]
    /\ UNCHANGED <<app, pc, spc, is_alive, hWaitStop, session_id, waitSecs,
                   waitResult, proc, handle, closes, sessionOf, tok, cyc,
                   backoffPending, stopChild, killSeen, hist, termIssued,
                   ivars, avars>>
KillClear(t) ==
    /\ kpc[t] = "clear"
    /\ handle' = Forget(child_process)
    /\ child_process' = None
    /\ kpc' = [kpc EXCEPT ![t] = "ret"]
    /\ UNCHANGED <<app, pc, spc, is_alive, hWaitStop, session_id, waitSecs,
                   waitResult, proc, closes, sessionOf, tok, cyc,
                   backoffPending, stopChild, killSeen, hist, termIssued,
                   ivars, avars>>

\* ---------------------------------------------- SvcStop (control thread)

\* lines 94-97: is_alive = False, then _kill_child
SvcStop ==
    /\ spc = "idle"
    /\ is_alive' = FALSE
    /\ spc' = "kill"
    /\ kpc' = [kpc EXCEPT !["stop"] = "test"]
    /\ stopChild' = IF child_process # None /\ proc[child_process] = "alive"
                    THEN child_process ELSE None
    /\ UNCHANGED <<app, pc, child_process, hWaitStop, session_id, waitSecs,
                   waitResult, proc, handle, closes, sessionOf, tok, cyc,
                   backoffPending, killSeen, hist, termIssued,
                   ivars, avars>>

\* line 98: SetEvent(hWaitStop)
SvcStopSetEvent ==
    /\ spc = "kill"
    /\ kpc["stop"] = "ret"
    /\ hWaitStop' = TRUE
    /\ spc' = "returned"
    /\ kpc' = [kpc EXCEPT !["stop"] = "out"]
    /\ UNCHANGED <<app, pc, is_alive, child_process, session_id, waitSecs,
                   waitResult, proc, handle, closes, sessionOf, tok, cyc,
                   backoffPending, stopChild, killSeen, hist, termIssued,
                   ivars, avars>>

\* ------------------------------------------------------------ environment

\* the agent process ends on its own (crash or exit)
ChildExit ==
    /\ \E c \in AliveChildren : proc' = [proc EXCEPT ![c] = "exited"]
    /\ UNCHANGED <<app, pc, spc, kpc, is_alive, child_process, hWaitStop,
                   session_id, waitSecs, waitResult, handle, closes, sessionOf,
                   tok, cyc, backoffPending, stopChild, killSeen, hist, termIssued,
                   ivars, avars>>

KillChild == \E t \in Threads :
    KillTest(t) \/ KillAlive(t) \/ KillTerminate(t) \/ KillClose(t) \/ KillClear(t)

Next ==
    \/ FindApp
    \/ LoopTest
    \/ GetActiveSession
    \/ CheckChild
    \/ LaunchInSession
    \/ WaitOnStop
    \/ LoopExit
    \/ KillChild
    \/ SvcStop
    \/ SvcStopSetEvent
    \/ ChildExit

Spec == Init /\ [][Next]_vars

\* the loop thread and the control thread are scheduled; the OS need not act
LoopStep == FindApp \/ LoopTest \/ GetActiveSession \/ CheckChild
            \/ LaunchInSession \/ WaitOnStop \/ LoopExit
FairSpec == Spec /\ WF_vars(LoopStep) /\ WF_vars(KillChild)
                 /\ WF_vars(SvcStopSetEvent)

\* the supervisor while no stop is requested: the loop thread, scheduled
\* fairly, and the children, which may exit at any time
RunNext ==
    \/ FindApp
    \/ LoopTest
    \/ GetActiveSession
    \/ CheckChild
    \/ LaunchInSession
    \/ WaitOnStop
    \/ ChildExit
RunSpec == Init /\ [][RunNext]_vars /\ WF_vars(LoopStep)

\* ------------------------------------------------------------ properties
IntermediateHandles == {"hToken", "hTokenDup", "hThread"}
StopRequested == spc # "idle"
StopSignalSet == spc = "returned"

\* C1: at most one agent process spawned by the supervisor is alive at any time
C1_AtMostOneAlive == Cardinality(AliveChildren) <= 1

\* C2: the launcher is only ever called while no child record is tracked
C2_LaunchOnlyUntracked == pc = "launch" => child_process = None

\* C3: no process handle is ever dropped (record replaced or cleared) without
\* having been closed
C3_NoHandleDropped == \A c \in Children : handle[c] # "dropped"

\* C4: when the launcher has returned, none of its intermediate handles
\* (user token, duplicated token, thread handle) is still open
C4_IntermediatesReleased == \A f \in IntermediateHandles : tok[f] # "open"

\* C5: a stop requested while a child is tracked and running ends with the
\* loop exited, no child tracked and that child's handle closed
C5_StopReleasesChild ==
    (pc = "done" /\ spc = "returned" /\ stopChild # None)
        => (child_process = None /\ handle[stopChild] = "closed")

\* C6: once the stop signal is set no wait of the loop runs to its timeout:
\* the wait in progress (or the next one started) returns signalled and the
\* loop leaves its cycle
C6_StopInterruptsWait ==
    [][(StopSignalSet /\ pc = "wait" /\ pc' # "wait")
          => (pc' = "kill" /\ waitResult' = "WAIT_OBJECT_0")]_vars
C6_Witness ==
    /\ pc = "kill"
    /\ waitResult = "WAIT_OBJECT_0"
    /\ StopSignalSet
    /\ waitSecs = SESSION_WAIT

\* C7: in a cycle that resolved a session V and found no child tracked, the
\* launch attempt for V has been made by the time the loop waits
C7_LaunchInSameCycle ==
    (pc = "wait" /\ session_id # None /\ cyc.noChild) => cyc.attempt = session_id
C7_Witness ==
    /\ pc = "wait"
    /\ session_id = MaxSession
    /\ cyc.noChild
    /\ cyc.attempt = session_id
    /\ ~StopRequested

\* C8: a launch attempt that follows a failed one is preceded by a completed
\* wait of at least RESTART_DELAY
C8_BackoffBeforeRetry == pc = "launch" => ~backoffPending
C8_Witness ==
    /\ pc = "launch"
    /\ tok.hToken = "open"
    /\ waitResult = "WAIT_TIMEOUT"
    /\ waitSecs = RESTART_DELAY

\* C9: once a poll has observed that the tracked child exited, the child
\* record is cleared
C9_ExitClearsRecord == cyc.sawExit => child_process = None

\* C10: the loop is left only after an external stop request
C10_ExitOnlyOnStop == pc \in {"kill", "done"} => StopRequested

Other(t) == IF t = "loop" THEN "stop" ELSE "loop"

\* C11: a _kill_child call that starts after an earlier call on a record has
\* returned does not find that record tracked; finding no record, it makes
\* no liveness check, no termination and no handle release and changes nothing
C11_SecondKillNoOp ==
    [][\A t \in Threads :
          (/\ kpc[t] = "test"
           /\ kpc'[t] # "test"
           /\ kpc[Other(t)] \in {"ret", "out"}
           /\ killSeen[Other(t)] # None)
          => /\ child_process # killSeen[Other(t)]
             /\ child_process = None
                  => /\ kpc'[t] = "ret"
                     /\ UNCHANGED <<child_process, proc, handle, closes>>]_vars
C11_Witness ==
    /\ kpc["loop"] = "ret"
    /\ killSeen["loop"] = None
    /\ spc = "returned"
    /\ killSeen["stop"] # None
    /\ closes[killSeen["stop"]] = 1

\* C12: when _kill_child returns after finding a tracked child, that child's
\* handle has been closed
C12_KillClosesHandle ==
    \A t \in Threads :
        (kpc[t] = "ret" /\ killSeen[t] # None) => handle[killSeen[t]] = "closed"

\* C13: _kill_child never lets an error escape, and at the moment it returns
\* no child is tracked
C13_KillNeverRaises ==
    [][\A t \in Threads :
          /\ kpc'[t] # "raised"
          /\ (kpc[t] # "ret" /\ kpc'[t] = "ret") => child_process' = None]_vars
C13_Witness ==
    /\ kpc["stop"] = "ret"
    /\ killSeen["stop"] # None
    /\ handle[killSeen["stop"]] = "dropped"
    /\ proc[killSeen["stop"]] = "alive"
    /\ child_process = None

C15_NoSessionWaits ==
    (pc = "wait" /\ session_id = None)
        => /\ waitSecs = SESSION_WAIT
           /\ cyc.attempt = None
           /\ cyc.tracked = None => child_process = None
C15_Witness ==
    /\ pc = "wait"
    /\ session_id = None
    /\ cyc.tracked = None
    /\ waitResult = "WAIT_TIMEOUT"
    /\ hist = NoHist
    /\ ~StopRequested

\* the supervisor state of the design, read off the loop's position
SupState ==
    CASE pc \in {"kill", "done"}        -> "STOPPED"
      [] pc = "wait" /\ backoffPending  -> "LAUNCH_FAILED"
      [] child_process # None           -> "CHILD_RUNNING"
      [] OTHER                          -> "NO_SESSION"

\* C16: a failed launch puts the supervisor in LAUNCH_FAILED with a wait of
\* RESTART_DELAY; it leaves LAUNCH_FAILED by that wait timing out, back to the
\* top of the loop (NO_SESSION when no record is tracked), and to STOPPED only
\* when the stop signal was set; every launch attempt uses the session
\* resolved in its own cycle; a successful launch gives CHILD_RUNNING
C16_FailuresRetried ==
    [][/\ (pc = "launch" /\ pc' = "wait" /\ Born' = Born)
            => (SupState' = "LAUNCH_FAILED" /\ waitSecs' = RESTART_DELAY)
       /\ (SupState = "LAUNCH_FAILED" /\ SupState' = "STOPPED") => StopSignalSet
       /\ (SupState = "LAUNCH_FAILED" /\ SupState' \notin {"LAUNCH_FAILED", "STOPPED"})
            => /\ pc' = "while"
               /\ waitResult' = "WAIT_TIMEOUT"
               /\ child_process = None => SupState' = "NO_SESSION"
       /\ pc' = "launch"
            => (cyc'.answer = session_id' /\ cyc'.attempt = None)
       /\ (pc = "launch" /\ pc' = "wait" /\ Born' # Born)
            => /\ SupState' = "CHILD_RUNNING"
               /\ waitSecs' = POLL_INTERVAL
               /\ child_process' \in Born' \ Born
               /\ proc'[child_process'] = "alive"]_vars
C16_Witness ==
    /\ pc = "wait"
    /\ hist.ok
    /\ hist.fails = MaxFails
    /\ Born = {child_process}
    /\ SupState = "CHILD_RUNNING"
    /\ ~StopRequested

\* C17: after a cycle that resolved session V, found no child tracked and
\* launched successfully, the tracked child was launched into V: the
\* supervisor is in CHILD_RUNNING and the child's session is the one the OS
\* answered in this cycle
C17_ChildInResolvedSession ==
    (pc = "wait" /\ cyc.noChild /\ cyc.attempt # None /\ hist.ok
        /\ child_process # None)
        => /\ SupState = "CHILD_RUNNING"
           /\ sessionOf[child_process] = cyc.answer
           /\ sessionOf[child_process] = session_id
C17_Witness ==
    /\ pc = "wait"
    /\ cyc.noChild
    /\ hist.ok
    /\ child_process # None
    /\ cyc.answer = MaxSession
    /\ sessionOf[child_process] = MaxSession
    /\ ~StopRequested

\* C18: the resolver gives None for the sentinel and for a failed query and
\* the OS value otherwise; after a None answer of either kind the loop makes
\* no launch attempt, waits SESSION_WAIT and goes on, ending only on the
\* stop signal
C18_ResolverFailureIsNoSession ==
    cyc.answer # None
        => /\ session_id = IF cyc.answer \in Sessions THEN cyc.answer ELSE None
           /\ cyc.answer \in {NO_SESSION_SENTINEL, QueryError}
                => /\ pc \in {"wait", "while"} \/ StopSignalSet
                   /\ cyc.attempt = None
                   /\ pc = "wait" => waitSecs = SESSION_WAIT
C18_Witness ==
    /\ cyc.answer = QueryError
    /\ session_id = None
    /\ pc = "while"
    /\ waitResult = "WAIT_TIMEOUT"
    /\ waitSecs = SESSION_WAIT
    /\ ~StopRequested

\* C19: while the tracked child is alive and no stop has been requested, no
\* step launches another child or replaces or clears the record
C19_AliveChildLeftAlone ==
    [][(/\ child_process # None
        /\ proc[child_process] = "alive"
        /\ ~StopRequested
        /\ ~StopRequested')
          => (Born' = Born /\ child_process' = child_process)]_vars

\* C20: in a cycle that started with a tracked child which is still alive,
\* the wait of the cycle is a wait of POLL_INTERVAL and the record is kept
C20_AlivePollWait ==
    (pc = "wait" /\ cyc.tracked # None /\ proc[cyc.tracked] = "alive"
        /\ ~StopRequested)
        => (waitSecs = POLL_INTERVAL /\ child_process = cyc.tracked)

\* ---------------------------------------------------------------- C21
\* C21: the loop never busy-spins.  A session query is reached only from the
\* loop test, a launch attempt only through the query and the liveness test
\* of the same cycle, and the loop test is reached only from the start of
\* the loop or from a wait on the stop event with one of the three finite
\* timeouts that timed out; so between two consecutive session queries, and
\* between two launch attempts, the loop waited at least once.
WaitTimeouts == {SESSION_WAIT, POLL_INTERVAL, RESTART_DELAY}
C21_WaitInEveryCycle ==
    [][/\ pc' = "start" => pc = "start"
       /\ (pc # "session" /\ pc' = "session") => pc = "while"
       /\ (pc # "check" /\ pc' = "check") => pc = "session"
       /\ (pc # "launch" /\ pc' = "launch") => pc = "check"
       /\ (pc # "wait" /\ pc' = "wait") => waitSecs' \in WaitTimeouts
       /\ (pc # "while" /\ pc' = "while") =>
             \/ pc = "start"
             \/ /\ pc = "wait"
                /\ waitSecs \in WaitTimeouts
                /\ waitResult' = "WAIT_TIMEOUT"]_vars
\* a second launch attempt is about to be made, after a wait that timed out
C21_Witness ==
    /\ pc = "launch"
    /\ waitResult = "WAIT_TIMEOUT"
    /\ hist # NoHist

\* ---------------------------------------------------------------- C22
\* C22: restart on crash.  With the loop thread scheduled fairly and no stop
\* requested, from a state where the tracked child has exited the loop
\* eventually launches and tracks a new, running child, unless the session
\* resolver answers no session or a launch attempt fails on the way.
TrackedExited == child_process # None /\ proc[child_process] = "exited"
TrackedRunning == child_process # None /\ proc[child_process] = "alive"
PremiseBroken ==
    \/ StopRequested
    \/ cyc.answer \in {NO_SESSION_SENTINEL, QueryError}
    \/ cyc.outcome \in Outcomes \ {"ok"}
C22_RestartOnCrash ==
    (TrackedExited /\ ~PremiseBroken) ~> (TrackedRunning \/ PremiseBroken)
\* the first child has exited and a second one was launched and is tracked
C22_Witness ==
    /\ proc[1] = "exited"
    /\ child_process = 2
    /\ proc[2] = "alive"
    /\ cyc.sawExit
    /\ cyc.outcome = "ok"

\* ---------------------------------------------------------------- C23
\* C23: launch failures are handled uniformly.  Whatever step of the
\* launcher fails (token acquisition, token duplication, environment block,
\* process creation), the loop is told the same thing, a failed launch, and
\* does the same thing: it keeps the record as it was, waits RESTART_DELAY,
\* and if that wait times out goes back to the loop test to try again.
FailureCauses == Outcomes \ {"ok"}
C23_UniformFailurePolicy ==
    [][/\ (pc = "launch" /\ pc' = "wait" /\ cyc'.outcome \in FailureCauses) =>
             /\ ~hist'.ok
             /\ waitSecs' = RESTART_DELAY
             /\ backoffPending'
             /\ child_process' = child_process
       /\ (pc = "wait" /\ pc' # "wait" /\ cyc.outcome \in FailureCauses
           /\ ~hWaitStop) =>
             /\ pc' = "while"
             /\ waitResult' = "WAIT_TIMEOUT"]_vars
\* the environment block could not be built, after an earlier failed launch
\* of another cause, and the loop waits RESTART_DELAY again
C23_Witness ==
    /\ pc = "wait"
    /\ cyc.outcome = "env_fail"
    /\ tok.hTokenDup = "open"
    /\ hist.fails = 2
    /\ waitSecs = RESTART_DELAY

SupervisorState ==
    <<child_process, proc, handle, closes, sessionOf, is_alive, hWaitStop,
      termIssued>>
C26_NoLaunchAfterStop ==
    [][(pc = "launch" /\ pc' = "wait") => is_alive]_vars
\* C26, amended: once is_alive is False the loop begins no new cycle, so it
\* makes no further session query; the cycle that had passed the loop test
\* when the stop arrived runs on and may make its one launch attempt.
C26_NoNewCycleAfterStop ==
    [][/\ (~is_alive /\ pc # "session") => pc' # "session"
       /\ (~is_alive /\ pc = "while" /\ pc' # "while") => pc' = "kill"
       /\ (pc = "launch" /\ pc' = "wait") =>
             /\ cyc.attempt = None
             /\ cyc'.attempt # None]_vars
\* SvcStop has returned, and the loop tracks a running child that it
\* launched after the stop request, in the cycle it was in
C26_Witness ==
    /\ spc = "returned"
    /\ pc = "wait"
    /\ cyc.outcome = "ok"
    /\ child_process # None
    /\ proc[child_process] = "alive"

\* ---------------------------------------------------------------- C27
\* C27: whatever the interleaving of the two _kill_child calls (SvcStop's
\* and the loop's at exit), CloseHandle is called at most once on a child's
\* handle, and the two calls are never both inside the try block of lines
\* 226-230 for the same record.
C27_ClosedAtMostOnce ==
    /\ \A c \in Children : closes[c] <= 1
    /\ ~(/\ kpc["loop"] \in {"alive", "term", "close"}
         /\ kpc["stop"] \in {"alive", "term", "close"}
         /\ killSeen["loop"] = killSeen["stop"])

\* ---------------------------------------------------------------- C28
\* C28: once SvcStop has returned and the loop has exited, nothing is
\* tracked and every child that was launched has exited or has had
\* TerminateProcess called on it: no agent is left running untracked.
C28_NoOrphanAfterStop ==
    (pc = "done" /\ spc = "returned") =>
       /\ child_process = None
       /\ \A c \in Born : proc[c] = "exited" \/ c \in termIssued

\* ------------------------------------------ service_manager.py: install

RESET_SECONDS == 86400
RestartDelays == <<5000, 10000, 30000>>
Codes == {0, 1}                        \* return code of a command: 0 or not

\* the command lines install_service runs
CmdPyInstall ==                        \* line 59: python service.py install
    [name |-> "install", start |-> "default", reset |-> None, actions |-> <<>>]
CmdCreate ==                           \* lines 77-82: sc create ... start=auto
    [name |-> "create", start |-> "auto", reset |-> None, actions |-> <<>>]
CmdConfig ==                           \* line 62: sc config start= auto
    [name |-> "config", start |-> "auto", reset |-> None, actions |-> <<>>]
CmdDescription ==                      \* lines 84-85: sc description
    [name |-> "description", start |-> "", reset |-> None, actions |-> <<>>]
CmdFailure ==                          \* lines 63-68 and 86-87: sc failure
    [name |-> "failure", start |-> "", reset |-> RESET_SECONDS,
     actions |-> RestartDelays]

\* what each path runs after a creation that returned 0
ScriptFollowUpNoRecovery == <<CmdConfig>>
ScriptFollowUp == <<CmdConfig, CmdFailure>>
ExeFollowUp == <<CmdDescription, CmdFailure>>

\* OS: what a command does to the service record when it succeeds
Effect(s, cmd) ==
    CASE cmd.name = "install"     -> [NoService EXCEPT !.exists = TRUE,
                                                       !.start = "demand"]
      [] cmd.name = "create"      -> [NoService EXCEPT !.exists = TRUE,
                                                       !.start = cmd.start]
      [] cmd.name = "config"      -> [s EXCEPT !.start = cmd.start]
      [] cmd.name = "description" -> [s EXCEPT !.described = TRUE]
      [] OTHER                    -> [s EXCEPT !.recovery = TRUE]

RECURSIVE RunAll(_, _)
RunAll(s, log) ==
    IF log = <<>> THEN s
    ELSE RunAll(IF Head(log).code = 0 THEN Effect(s, Head(log).cmd) ELSE s,
                Tail(log))

svars == <<app, pc, spc, kpc, is_alive, child_process, hWaitStop, session_id,
           waitSecs, waitResult, proc, handle, closes, sessionOf, tok, cyc,
           backoffPending, stopChild, killSeen, hist, termIssued>>

\* install_service (lines 52-94); a creation cannot succeed while the
\* service exists, and any command may fail
InstallService ==
    /\ icalls < MaxCalls
    /\ icalls' = icalls + 1
    /\ IF iexe = "none"
       THEN /\ ilog' = <<>>
            /\ iresult' = "False"
            /\ svc' = svc
       ELSE LET create == IF iexe = "py" THEN CmdPyInstall ELSE CmdCreate
                follow == IF iexe = "py" THEN ScriptFollowUp ELSE ExeFollowUp
            IN \E code \in Codes :
                  /\ code = 0 => ~svc.exists
                  /\ IF code = 0
                     THEN \E cs \in [1..Len(follow) -> Codes] :
                             /\ ilog' = <<[cmd |-> create, code |-> code]>> \o
                                        [i \in 1..Len(follow) |->
                                            [cmd |-> follow[i], code |-> cs[i]]]
                             /\ svc' = RunAll(svc, ilog')
                             /\ iresult' = "True"
                     ELSE /\ ilog' = <<[cmd |-> create, code |-> code]>>
                          /\ svc' = svc
                          /\ iresult' = "False"
    /\ UNCHANGED <<iexe, svars, avars>>

\* uninstall_service (lines 97-115): stop, then remove or delete
UninstallService ==
    /\ icalls < MaxCalls
    /\ icalls' = icalls + 1
    /\ \E code \in Codes :
          /\ code = 0 => svc.exists
          /\ svc' = IF code = 0 THEN NoService ELSE svc
    /\ ilog' = <<>>
    /\ iresult' = "none"
    /\ UNCHANGED <<iexe, svars, avars>>

InstallInit ==
    /\ app = "exe"
    /\ ServiceInit
    /\ iexe \in {"exe", "py", "none"}
    /\ ManagerIdle
    /\ AgentIdle

InstallNext == InstallService \/ UninstallService

InstallSpec == InstallInit /\ [][InstallNext]_vars

\* ---------------------------------------------------------------- C25
\* C25: installation is all-or-nothing.  When install_service returns True
\* the log of the call begins with the one creation command, which returned
\* 0, so the service exists; automatic start was asked for, by the creation
\* command itself or by a command after it; and after the creation the
\* failure command with reset 86400 and restarts after 5000, 10000 and
\* 30000 ms was issued.  When it returns False no command other than a
\* failed creation was issued.
Creations == {"install", "create"}
Windows == 1..MaxWindows
OpenCall(shot) == [call |-> "open", shot |-> shot, win |-> None]
CloseCall(w)   == [call |-> "close", shot |-> FALSE, win |-> w]
QuitCall       == [call |-> "quit", shot |-> FALSE, win |-> None]

\* the after-queue without its i-th callback
Remove(q, i) == SubSeq(q, 1, i - 1) \o SubSeq(q, i + 1, Len(q))

\* main.py line 44: self._ticket_window is not None and winfo_exists()
WindowOpenNever(tw) == FALSE
WindowOpen(tw) == tw # None /\ tw \in exists

\* tray.py _on_hotkey_pressed (lines 106-130), run by the F8 hook and by the
\* tray menu's Open item (_on_open, lines 132-134): the screenshot may fail
OnHotkeyPressed ==
    /\ running
    /\ Len(afterq) < MaxPending
    /\ \E shot \in BOOLEAN : afterq' = Append(afterq, OpenCall(shot))
    /\ UNCHANGED <<running, ticket_window, exists, made, focused, svars, ivars>>

\* main.py open_ticket_window (lines 42-48), run by the Tk main loop
OpenTicketWindow ==
    \E i \in 1..Len(afterq) :
       /\ afterq[i].call = "open"
       /\ afterq' = Remove(afterq, i)
       /\ IF WindowOpen(ticket_window)
          THEN /\ focused' = ticket_window
               /\ UNCHANGED <<ticket_window, exists, made>>
          ELSE /\ made < MaxWindows
               /\ made' = made + 1
               /\ exists' = exists \cup {made + 1}
               /\ ticket_window' = made + 1
               /\ focused' = focused
       /\ UNCHANGED <<running, svars, ivars>>

\* gui.py _on_submit_result (lines 300-303): a sent ticket closes its window
\* two seconds later
OnSubmitResult ==
    /\ Len(afterq) < MaxPending
    /\ \E w \in exists : afterq' = Append(afterq, CloseCall(w))
    /\ UNCHANGED <<running, ticket_window, exists, made, focused, svars, ivars>>

\* gui.py _on_close (lines 308-309) from the window's close button (line 46)
OnClose ==
    /\ \E w \in exists : exists' = exists \ {w}
    /\ UNCHANGED <<running, ticket_window, afterq, made, focused, svars, ivars>>

\* gui.py _on_close run by the timer of line 303; the callback of a window
\* that was destroyed meanwhile does nothing
OnCloseTimer ==
    /\ \E i \in 1..Len(afterq) :
          /\ afterq[i].call = "close"
          /\ afterq' = Remove(afterq, i)
          /\ exists' = exists \ {afterq[i].win}
    /\ UNCHANGED <<running, ticket_window, made, focused, svars, ivars>>

\* tray.py _on_quit (lines 136-144)
OnQuit ==
    /\ running
    /\ Len(afterq) < MaxPending
    /\ running' = FALSE
    /\ afterq' = Append(afterq, QuitCall)
    /\ UNCHANGED <<ticket_window, exists, made, focused, svars, ivars>>

\* main.py quit_app (lines 50-61): the process ends
QuitApp ==
    /\ \E i \in 1..Len(afterq) : afterq[i].call = "quit"
    /\ running' = FALSE
    /\ exists' = {}
    /\ afterq' = <<>>
    /\ UNCHANGED <<ticket_window, made, focused, svars, ivars>>

AgentInit ==
    /\ app = "exe"
    /\ ServiceInit
    /\ iexe = "none"
    /\ ManagerIdle
    /\ AgentIdle

AgentNext ==
    \/ OnHotkeyPressed
    \/ OpenTicketWindow
    \/ OnSubmitResult
    \/ OnClose
    \/ OnCloseTimer
    \/ OnQuit
    \/ QuitApp

AgentSpec == AgentInit /\ [][AgentNext]_vars

\* ---------------------------------------------------------------- C30
\* C30: at most one ticket window exists at any time, and it is the one
\* the application remembers; whatever the order of hotkey presses, Open
\* clicks and window closes, open_ticket_window builds a window only when
\* none exists and otherwise focuses the existing one.
C30_OneTicketWindow ==
    /\ Cardinality(exists) <= 1
    /\ exists \subseteq {ticket_window}
    /\ focused # None => focused \in 1..made
\* the first window was closed, a second one was built, and a further
\* request found it open and focused it
C30_Witness ==
    /\ made = 2
    /\ exists = {2}
    /\ focused = 2

====
